---- MODULE Spec2Model ----
(***************************************************************************)
(* Model of monitor.py: the DPM8600 serial client (frame encoding, the     *)
(* _read decision chain, the get_* / set_* operations) and the polling and *)
(* power-limiting loop of the main program.                                *)
(*                                                                         *)
(* Conventions.                                                            *)
(*  - A byte string is a sequence of one-character strings.  The line      *)
(*    carries ASCII only, so bytes.decode() (lines 184-188) cannot raise;  *)
(*    the transport itself is healthy (no SerialException).                *)
(*  - A Python value is a record [k, n, d, s]: k is the type ("None",      *)
(*    "bool", "int", "float", "str"), n/d the number, s the characters.    *)
(*  - A float operand of WriteFunction.convert is carried through IEEE-754 *)
(*    binary64 multiplication (FloatOfRatio, FloatMulInt, FloatTrunc); the *)
(*    loop's own arithmetic is exact rational arithmetic.                  *)
(*  - Time is in milliseconds.                                             *)
(***************************************************************************)
EXTENDS Integers, Sequences, FiniteSets, TLC

VARIABLES
    \* --- the client, class DPM8600
    address_code,   \* DPM8600.address_code
    inbuf,          \* bytes waiting in the serial input buffer
    sent,           \* raw_cmd written by the call in progress (<<>>: none)
    cpc,            \* client position: "idle" or "read" (request sent, _read pending)
    call,           \* the DPM8600 method in progress or last completed
    cmd,            \* its command (a ReadFunction or WriteFunction member)
    nops,           \* number of operands handed to _send by that call
    ret,            \* value returned by the last completed call
    line,           \* what read_until() handed to the last _read
    outcome,        \* the branch the last _read left through
    drained,        \* whether the last _read ran _clearInput
    exc,            \* exception that ended the last call ("none": it returned)
    \* --- the main program, lines 287-430
    pc,             \* position of the main thread
    clock,          \* time.monotonic(), ms
    delay,          \* int(args["--delay"]), ms
    start_time_monotonic,
    now_monotonic,
    last_time_monotonic,
    max_watt,       \* the global the key listener changes
    v, a, state, typ, v_lim, a_lim,     \* the six readings of the cycle
    w,              \* v*a
    wh_sum, wh_gross, v_sum, a_sum, stat_count,
    a_limit,        \* the staged current limit (None: nothing staged)
    crash,          \* the uncaught exception that ended the main thread ("none")
    \* --- what the run has done so far (observations, not program state)
    cfg_watt,       \* the --max-watt the program was started with
    wrote,          \* argument of the set_current_limit issued in this cycle (None: none)
    rows,           \* records emitted
    cycles,         \* passes through the loop top
    skips,          \* passes ended by continue
    keys,           \* key presses delivered
    stable,         \* no key press has landed since this cycle's record was emitted
    work,           \* time the last pass spent between its loop top and its sleep
    slept,          \* duration of the last sleep of the loop
    a_seen,         \* some completed sample had a current other than 0
    pos_count,      \* completed samples with voltage > 0 and current > 0
    ts_sum,         \* sum of the timespan_s of the completed samples, ms
    \* --- the conversion round trip
    rt_pc, rt_scale, rt_in, rt_wire, rt_out,
    \* --- the requests of a session and the device's answers to them
    step,           \* index in ProgramCalls of the call the program makes next
    reqno,          \* requests transmitted so far; a request is known by its number
    owed,           \* requests the device has received and not answered yet
    tags,           \* for each line pending in inbuf, the request it answers
    got             \* the request answered by the line the last read consumed (0: none)

cvars == <<address_code, inbuf, sent, cpc, call, cmd, nops, ret, line, outcome, drained, exc>>

lvars == <<pc, clock, delay, start_time_monotonic, now_monotonic, last_time_monotonic,
           max_watt, v, a, state, typ, v_lim, a_lim, w, wh_sum, wh_gross, v_sum, a_sum,
           stat_count, a_limit, crash, cfg_watt, wrote, rows, cycles, skips, keys,
           stable, work, slept, a_seen, pos_count, ts_sum>>

rvars == <<rt_pc, rt_scale, rt_in, rt_wire, rt_out>>

pvars == <<step, reqno, owed, tags, got>>

vars == <<cvars, lvars, rvars, pvars>>

-----------------------------------------------------------------------------
(* Protocol constants, lines 73-76 *)

START == ":"
READ == "r"
WRITE == "w"
END == <<"\r", "\n">>

Digits == {"0", "1", "2", "3", "4", "5", "6", "7", "8", "9"}
Whitespace == {" ", "\t", "\r", "\n"}

-----------------------------------------------------------------------------
(* Python values *)

None == [k |-> "None", n |-> 0, d |-> 1, s |-> <<>>]
PyBool(b) == [k |-> "bool", n |-> IF b THEN 1 ELSE 0, d |-> 1, s |-> <<>>]
PyInt(i) == [k |-> "int", n |-> i, d |-> 1, s |-> <<>>]
PyFloat(num, den) == [k |-> "float", n |-> num, d |-> den, s |-> <<>>]
PyStr(chars) == [k |-> "str", n |-> 0, d |-> 1, s |-> chars]
True == PyBool(TRUE)

\* Python truthiness: None, False, 0, 0.0 and "" are false.
Truthy(val) ==
    CASE val.k = "None" -> FALSE
      [] val.k = "str" -> val.s # <<>>
      [] OTHER -> val.n # 0

RECURSIVE IntToStr(_)
IntToStr(i) ==
    LET digit == <<"0", "1", "2", "3", "4", "5", "6", "7", "8", "9">>[(i % 10) + 1]
    IN IF i < 10 THEN <<digit>> ELSE IntToStr(i \div 10) \o <<digit>>

RECURSIVE StrToInt(_)
StrToInt(chars) ==
    IF chars = <<>> THEN 0
    ELSE LET last == chars[Len(chars)]
             digit == CHOOSE i \in 0..9 : IntToStr(i) = <<last>>
         IN 10 * StrToInt(SubSeq(chars, 1, Len(chars) - 1)) + digit

\* str(o) of an operand: an int prints its digits, a str is itself.
StrOf(val) == IF val.k = "str" THEN val.s ELSE IntToStr(val.n)

\* f"{i:02}"
Fmt02(i) == IF i < 10 THEN <<"0">> \o IntToStr(i) ELSE IntToStr(i)

-----------------------------------------------------------------------------
(* Python float: IEEE-754 binary64, non-negative.  m is the 53-bit          *)
(* significand, most significant bit first (<<>> for zero), e the exponent  *)
(* of its first bit.  Rounding is to nearest, ties to even.                 *)

MantBits == 53

\* the bit operators below work through a significand up to 7 bits at a time
Chunk(k) == IF k % 7 = 0 THEN 7 ELSE k % 7

RECURSIVE Pow2(_)
Pow2(k) == IF k = 0 THEN 1 ELSE 2 * Pow2(k - 1)

RECURSIVE Log2Floor(_, _)
Log2Floor(n, d) == IF n < 2 * d THEN 0 ELSE 1 + Log2Floor(n, 2 * d)

RECURSIVE Log2Up(_, _)
Log2Up(n, d) == IF n >= d THEN 0 ELSE 1 + Log2Up(2 * n, d)

BitsOf(n, k) == [j \in 1..k |-> (n \div Pow2(k - j)) % 2]

RECURSIVE BitsVal(_)
BitsVal(bits) ==
    IF Len(bits) = 0 THEN 0
    ELSE IF Len(bits) = 1 THEN bits[1]
    ELSE LET h == Len(bits) \div 2
         IN BitsVal(SubSeq(bits, 1, h)) * Pow2(Len(bits) - h)
                + BitsVal(SubSeq(bits, h + 1, Len(bits)))

RECURSIVE BitLen(_)
BitLen(n) == IF n = 0 THEN 0 ELSE 1 + BitLen(n \div 2)

\* The next k binary digits of r/den (0 <= r < den), a chunk at a time.
RECURSIVE FracBits(_, _, _)
FracBits(r, den, k) ==
    IF k = 0 THEN [bits |-> <<>>, rem |-> r]
    ELSE LET c == Chunk(k)
             t == r * Pow2(c)
             rest == FracBits(t % den, den, k - c)
         IN [bits |-> BitsOf(t \div den, c) \o rest.bits, rem |-> rest.rem]

IncBits(bits) ==
    IF \A i \in 1..Len(bits) : bits[i] = 1
    THEN [bits |-> [i \in 1..Len(bits) |-> 0], carry |-> 1]
    ELSE LET k == CHOOSE i \in 1..Len(bits) :
                      bits[i] = 0 /\ \A j \in (i + 1)..Len(bits) : bits[j] = 1
         IN [bits |-> [i \in 1..Len(bits) |-> IF i < k THEN bits[i]
                                               ELSE IF i = k THEN 1 ELSE 0],
             carry |-> 0]

FloatZero == [m |-> <<>>, e |-> 0]

RoundBits(keep, e, up) ==
    IF ~up THEN [m |-> keep, e |-> e]
    ELSE LET inc == IncBits(keep)
         IN IF inc.carry = 1
            THEN [m |-> <<1>> \o SubSeq(inc.bits, 1, MantBits - 1), e |-> e + 1]
            ELSE [m |-> inc.bits, e |-> e]

\* The float nearest to n/d: float("n/d as a decimal"), or the true division n / d.
FloatOfRatio(n, d) ==
    IF n = 0 THEN FloatZero
    ELSE LET e == IF n >= d THEN Log2Floor(n, d) ELSE 0 - Log2Up(n, d)
             num == IF e >= 0 THEN n ELSE n * Pow2(0 - e)
             den == IF e >= 0 THEN d * Pow2(e) ELSE d
             q == FracBits(num - den, den, MantBits - 1)
             up == 2 * q.rem > den \/ (2 * q.rem = den /\ q.bits[MantBits - 1] = 1)
         IN RoundBits(<<1>> \o q.bits, e, up)

\* The significand times c, exactly, as bits (least significant chunk first).
RECURSIVE MulBits(_, _, _, _)
MulBits(bits, i, c, carry) ==
    IF i = 0 THEN BitsOf(carry, BitLen(carry))
    ELSE LET width == Chunk(i)
             t == BitsVal(SubSeq(bits, i - width + 1, i)) * c + carry
         IN MulBits(bits, i - width, c, t \div Pow2(width)) \o BitsOf(t % Pow2(width), width)

\* f * c for a float f and an int c: the exact product rounded to 53 bits.
FloatMulInt(f, c) ==
    IF f.m = <<>> \/ c = 0 THEN FloatZero
    ELSE LET p == MulBits(f.m, MantBits, c, 0)
             L == Len(p)
             keep == SubSeq(p, 1, MantBits)
             guard == L > MantBits /\ p[MantBits + 1] = 1
             sticky == \E j \in (MantBits + 2)..L : p[j] = 1
             up == guard /\ (sticky \/ keep[MantBits] = 1)
         IN RoundBits(keep, f.e + (L - MantBits), up)

\* math.trunc(f) for f >= 0
FloatTrunc(f) ==
    IF f.m = <<>> \/ f.e < 0 THEN 0 ELSE BitsVal(SubSeq(f.m, 1, f.e + 1))

-----------------------------------------------------------------------------
(* The arguments the program hands to the client *)

AddressCodes == {1, 2}
VoltageArgs == {PyFloat(1450, 100), PyFloat(29, 100)}
CurrentArgs == {PyFloat(3571, 1000), PyFloat(1001, 1000)}
OutputArgs == {PyBool(TRUE), PyBool(FALSE)}

-----------------------------------------------------------------------------
(* Commands, lines 78-119 *)

WriteFunction ==
    {"WRITE_VOLTAGE_LIMIT", "WRITE_CURRENT_LIMIT", "WRITE_OUTPUT_STATUS",
     "WRITE_VOLTAGE_AND_CURRENT_LIMIT"}

ReadFunction ==
    {"READ_MAX_OUTPUT_VOLTAGE", "READ_MAX_OUTPUT_CURRENT", "READ_VOLTAGE_SETTING",
     "READ_CURRENT_SETTING", "READ_OUTPUT_STATUS", "READ_OUTPUT_VOLTAGE",
     "READ_OUTPUT_CURRENT", "READ_OUTPUT_TYPE", "READ_TEMPERATURE"}

\* cmd.value
Value(c) ==
    CASE c = "WRITE_VOLTAGE_LIMIT" -> 10
      [] c = "WRITE_CURRENT_LIMIT" -> 11
      [] c = "WRITE_OUTPUT_STATUS" -> 12
      [] c = "WRITE_VOLTAGE_AND_CURRENT_LIMIT" -> 20
      [] c = "READ_MAX_OUTPUT_VOLTAGE" -> 0
      [] c = "READ_MAX_OUTPUT_CURRENT" -> 1
      [] c = "READ_VOLTAGE_SETTING" -> 10
      [] c = "READ_CURRENT_SETTING" -> 11
      [] c = "READ_OUTPUT_STATUS" -> 12
      [] c = "READ_OUTPUT_VOLTAGE" -> 30
      [] c = "READ_OUTPUT_CURRENT" -> 31
      [] c = "READ_OUTPUT_TYPE" -> 32
      [] c = "READ_TEMPERATURE" -> 33

\* math.trunc(val * scale) of a float val
FloatTruncScaled(val, scale) == FloatTrunc(FloatMulInt(FloatOfRatio(val.n, val.d), scale))

\* the same values, computed once for the arguments the client is called with
ScaledOnce ==
    [val \in VoltageArgs \cup CurrentArgs |->
        [scale \in {100, 1000} |-> FloatTruncScaled(val, scale)]]

\* math.trunc(val * scale): int arithmetic for an int, binary64 for a float
TruncScaled(val, scale) ==
    IF val.k # "float" THEN PyInt(val.n * scale)
    ELSE IF val \in DOMAIN ScaledOnce THEN PyInt(ScaledOnce[val][scale])
    ELSE PyInt(FloatTruncScaled(val, scale))

\* WriteFunction.convert: [ok, val], ok = FALSE when it raises.  The last
\* branch names self.READ_OUTPUT_TYPE, which WriteFunction does not have:
\* reaching it raises AttributeError.
WriteConvert(c, val) ==
    CASE c = "WRITE_VOLTAGE_LIMIT" -> [ok |-> TRUE, val |-> TruncScaled(val, 100)]
      [] c = "WRITE_CURRENT_LIMIT" -> [ok |-> TRUE, val |-> TruncScaled(val, 1000)]
      [] c = "WRITE_OUTPUT_STATUS" ->
            [ok |-> TRUE, val |-> PyStr(IF Truthy(val) THEN <<"1">> ELSE <<"0">>)]
      [] OTHER -> [ok |-> FALSE, val |-> None]

\* ReadFunction.convert of an int
ReadConvert(c, i) ==
    CASE c = "READ_OUTPUT_STATUS" -> PyBool(i # 0)
      [] c \in {"READ_MAX_OUTPUT_VOLTAGE", "READ_VOLTAGE_SETTING", "READ_OUTPUT_VOLTAGE"} ->
            PyFloat(i, 100)
      [] c \in {"READ_MAX_OUTPUT_CURRENT", "READ_CURRENT_SETTING", "READ_OUTPUT_CURRENT"} ->
            PyFloat(i, 1000)
      [] c = "READ_TEMPERATURE" -> PyInt(i)
      [] c = "READ_OUTPUT_TYPE" -> PyStr(IF i = 0 THEN <<"C", "V">> ELSE <<"C", "C">>)

\* cmd.convert(val) as _read calls it, on either enum
Convert(c, i) ==
    IF c \in ReadFunction THEN [ok |-> TRUE, val |-> ReadConvert(c, i)]
    ELSE WriteConvert(c, PyInt(i))

-----------------------------------------------------------------------------
(* _send, lines 148-168: the frame, or the exception that conversion raises *)

RECURSIVE Join(_)
Join(strs) ==
    IF strs = <<>> THEN <<>>
    ELSE IF Len(strs) = 1 THEN strs[1]
    ELSE strs[1] \o <<",">> \o Join(Tail(strs))

Encode(addr, c, operands) ==
    LET conv == [i \in 1..Len(operands) |->
                    IF c \in ReadFunction THEN [ok |-> TRUE, val |-> operands[i]]
                    ELSE WriteConvert(c, operands[i])]
        func == IF c \in WriteFunction THEN WRITE ELSE READ
        operand == Join([i \in 1..Len(operands) |-> StrOf(conv[i].val)])
    IN IF \E i \in 1..Len(operands) : ~conv[i].ok
       THEN [ok |-> FALSE, raw |-> <<>>]
       ELSE [ok |-> TRUE,
             raw |-> <<START>> \o Fmt02(addr) \o <<func>> \o Fmt02(Value(c))
                        \o <<"=">> \o operand \o <<",">> \o END]

-----------------------------------------------------------------------------
(* cmd_re, line 142:                                                        *)
(*   :(?P<addr>\d+)(?P<func>[wr])(?P<func_num>\d+)=((?P<operand>\d+),?)+.?\r\n *)
(* matched from the start of the line; a repeated group keeps its last      *)
(* capture.                                                                 *)

RECURSIVE DigitRun(_, _)
DigitRun(s, i) == IF i <= Len(s) /\ s[i] \in Digits THEN 1 + DigitRun(s, i + 1) ELSE 0

At(s, i, c) == i <= Len(s) /\ s[i] = c

StartsAt(s, i, t) == i + Len(t) - 1 <= Len(s) /\ SubSeq(s, i, i + Len(t) - 1) = t

\* ((?P<operand>\d+),?)+ from position i, greedy: [next, op]
RECURSIVE OperandScan(_, _, _)
OperandScan(s, i, last) ==
    LET run == DigitRun(s, i)
        j == i + run
    IN IF run = 0 THEN [next |-> i, op |-> last]
       ELSE OperandScan(s, IF At(s, j, ",") THEN j + 1 ELSE j, SubSeq(s, i, j - 1))

NoMatch == [ok |-> FALSE, addr |-> <<>>, func |-> "", func_num |-> <<>>, operand |-> <<>>]

Match(s) ==
    LET na == DigitRun(s, 2)
        pf == 2 + na
        nf == DigitRun(s, pf + 1)
        pe == pf + 1 + nf
        ops == OperandScan(s, pe + 1, <<>>)
        p == ops.next
    IN IF /\ At(s, 1, START)
          /\ na >= 1
          /\ (At(s, pf, WRITE) \/ At(s, pf, READ))
          /\ nf >= 1
          /\ At(s, pe, "=")
          /\ DigitRun(s, pe + 1) >= 1
          /\ \/ StartsAt(s, p, END)
             \/ (p <= Len(s) /\ s[p] # "\n" /\ StartsAt(s, p + 1, END))
       THEN [ok |-> TRUE, addr |-> SubSeq(s, 2, pf - 1), func |-> s[pf],
             func_num |-> SubSeq(s, pf + 1, pe - 1), operand |-> ops.op]
       ELSE NoMatch

\* str.strip()
RECURSIVE Strip(_)
Strip(s) ==
    IF s = <<>> THEN s
    ELSE IF s[1] \in Whitespace THEN Strip(Tail(s))
    ELSE IF s[Len(s)] \in Whitespace THEN Strip(SubSeq(s, 1, Len(s) - 1))
    ELSE s

\* str.endswith
EndsWith(s, t) == Len(s) >= Len(t) /\ SubSeq(s, Len(s) - Len(t) + 1, Len(s)) = t

\* Serial.read_until(): up to and with the first LF, or on timeout all there is
FirstLF(buf) == IF \E i \in 1..Len(buf) : buf[i] = "\n"
                THEN CHOOSE i \in 1..Len(buf) : buf[i] = "\n" /\ \A j \in 1..(i - 1) : buf[j] # "\n"
                ELSE Len(buf)

ReadUntil(buf) == [line |-> SubSeq(buf, 1, FirstLF(buf)),
                   rest |-> SubSeq(buf, FirstLF(buf) + 1, Len(buf))]

\* _read as it would be without the comparison of lines 209-212
ReadLineNoFuncTest(c, ln) ==
    LET m == Match(ln) IN
    IF Len(ln) = 0 THEN [val |-> None, outcome |-> "Empty", drain |-> FALSE]
    ELSE IF ~EndsWith(ln, END) THEN [val |-> None, outcome |-> "Timeout", drain |-> TRUE]
    ELSE IF Strip(ln) = <<":", "0", "1", "o", "k">>
         THEN [val |-> True, outcome |-> "Ack", drain |-> FALSE]
    ELSE IF ~m.ok THEN [val |-> None, outcome |-> "Malformed", drain |-> TRUE]
    ELSE [val |-> Convert(c, StrToInt(m.operand)).val, outcome |-> "Value", drain |-> FALSE]

\* _read as it would be without the test of lines 194-197
ReadLineNoTerminatorTest(c, ln) ==
    LET m == Match(ln) IN
    IF Len(ln) = 0 THEN [val |-> None, outcome |-> "Empty", drain |-> FALSE]
    ELSE IF Strip(ln) = <<":", "0", "1", "o", "k">>
         THEN [val |-> True, outcome |-> "Ack", drain |-> FALSE]
    ELSE IF ~m.ok THEN [val |-> None, outcome |-> "Malformed", drain |-> TRUE]
    ELSE IF StrToInt(m.func_num) # Value(c)
         THEN [val |-> None, outcome |-> "Mismatch", drain |-> TRUE]
    ELSE [val |-> Convert(c, StrToInt(m.operand)).val, outcome |-> "Value", drain |-> FALSE]

\* _read as it would be with the test of lines 199-200 after the match of line 202
ReadLineAckAfterMatch(c, ln) ==
    LET m == Match(ln) IN
    IF Len(ln) = 0 THEN [val |-> None, outcome |-> "Empty", drain |-> FALSE]
    ELSE IF ~EndsWith(ln, END) THEN [val |-> None, outcome |-> "Timeout", drain |-> TRUE]
    ELSE IF ~m.ok THEN [val |-> None, outcome |-> "Malformed", drain |-> TRUE]
    ELSE IF Strip(ln) = <<":", "0", "1", "o", "k">>
         THEN [val |-> True, outcome |-> "Ack", drain |-> FALSE]
    ELSE IF StrToInt(m.func_num) # Value(c)
         THEN [val |-> None, outcome |-> "Mismatch", drain |-> TRUE]
    ELSE [val |-> Convert(c, StrToInt(m.operand)).val, outcome |-> "Value", drain |-> FALSE]

\* The decision chain of _read, lines 191-216, on the line read for command c:
\* [val, outcome, drain].  drain: _clearInput is called.
ReadLine(c, ln) ==
    LET m == Match(ln) IN
    IF Len(ln) = 0 THEN [val |-> None, outcome |-> "Empty", drain |-> FALSE]
    ELSE IF ~EndsWith(ln, END) THEN [val |-> None, outcome |-> "Timeout", drain |-> TRUE]
    ELSE IF Strip(ln) = <<":", "0", "1", "o", "k">>
         THEN [val |-> True, outcome |-> "Ack", drain |-> FALSE]
    ELSE IF ~m.ok THEN [val |-> None, outcome |-> "Malformed", drain |-> TRUE]
    ELSE IF StrToInt(m.func_num) # Value(c)
         THEN [val |-> None, outcome |-> "Mismatch", drain |-> TRUE]
    ELSE [val |-> Convert(c, StrToInt(m.operand)).val, outcome |-> "Value", drain |-> FALSE]

-----------------------------------------------------------------------------
(* What the device may put on the line *)


LineNums == {10, 11, 12, 30, 31, 32, 33}
OperandLists == {<<0>>, <<1>>, <<1400>>, <<3000, 7>>}

DevFrame(addr, func, num, ops, tail, term) ==
    <<START>> \o Fmt02(addr) \o <<func>> \o Fmt02(num) \o <<"=">>
        \o Join([i \in 1..Len(ops) |-> IntToStr(ops[i])]) \o tail \o term

Ack == <<":", "0", "1", "o", "k">> \o END

GoodFrames ==
    {DevFrame(addr, f, n, ops, <<".">>, END) :
        addr \in AddressCodes, f \in {READ, WRITE}, n \in LineNums, ops \in OperandLists}

VariantFrames ==
    {DevFrame(1, READ, n, <<1400>>, tail, term) :
        n \in {12, 30},
        tail \in {<<>>, <<",">>, <<",", ",">>, <<"\r">>, <<".", ".">>},
        term \in {END, <<"\n">>, <<"\r">>, <<>>}}

OtherLines ==
    {Ack, <<" ">> \o Ack, <<":", "0", "1", "o", "k">>, <<":", "0", "2", "o", "k">> \o END,
     <<"x">> \o END, END, <<":", "r", "3", "0", "=", "1", ",">> \o END,
     <<":", "0", "1", "r", "3", "0", "=">> \o END}

DeviceLines == GoodFrames \cup VariantFrames \cup OtherLines

\* bytes that may follow the first line within the same burst
Trailers == {<<>>, <<"x">>, Ack, DevFrame(1, READ, 31, <<3000>>, <<".">>, END)}

-----------------------------------------------------------------------------
(* The client: DPM8600 *)

\* _clearInput, lines 170-174: reads until in_waiting is 0
_clearInput(buf) == <<>>

\* _send, lines 148-168, as part of a call
_send(c, operands) ==
    LET f == Encode(address_code, c, operands) IN
    /\ cmd' = c
    /\ nops' = Len(operands)
    /\ sent' = f.raw
    /\ exc' = IF f.ok THEN "none" ELSE "AttributeError"

\* a method that sends and then reads: the part up to the blocking read
CallStep(method, c, operands) ==
    /\ cpc = "idle"
    /\ call' = method
    /\ _send(c, operands)
    /\ cpc' = IF Encode(address_code, c, operands).ok THEN "read" ELSE "idle"
    /\ ret' = None
    /\ line' = <<>>
    /\ outcome' = "none"
    /\ drained' = FALSE
    /\ UNCHANGED <<address_code, inbuf>>

Request(method, c, operands) ==
    /\ CallStep(method, c, operands)
    /\ UNCHANGED <<lvars, rvars, pvars>>

\* lines 218-231
set_voltage_limit ==
    \E voltage \in VoltageArgs : Request("set_voltage_limit", "WRITE_VOLTAGE_LIMIT", <<voltage>>)

set_current_limit ==
    \E current \in CurrentArgs : Request("set_current_limit", "WRITE_CURRENT_LIMIT", <<current>>)

set_output == \E o \in OutputArgs : Request("set_output", "WRITE_OUTPUT_STATUS", <<o>>)

\* lines 233-234: no _read follows
set_max_voltage_and_current ==
    \E voltage \in VoltageArgs, current \in CurrentArgs :
        /\ cpc = "idle"
        /\ call' = "set_max_voltage_and_current"
        /\ _send("WRITE_VOLTAGE_AND_CURRENT_LIMIT", <<voltage, current>>)
        /\ cpc' = "idle"
        /\ ret' = None
        /\ line' = <<>>
        /\ outcome' = "none"
        /\ drained' = FALSE
        /\ UNCHANGED <<address_code, inbuf>>
        /\ UNCHANGED <<lvars, rvars, pvars>>

\* lines 236-262
get_voltage == Request("get_voltage", "READ_OUTPUT_VOLTAGE", <<PyInt(0)>>)

get_current == Request("get_current", "READ_OUTPUT_CURRENT", <<PyInt(0)>>)

get_output_status == Request("get_output_status", "READ_OUTPUT_STATUS", <<PyInt(0)>>)

get_output_type == Request("get_output_type", "READ_OUTPUT_TYPE", <<PyInt(0)>>)

get_temperature == Request("get_temperature", "READ_TEMPERATURE", <<PyInt(0)>>)

get_voltage_limit == Request("get_voltage_limit", "READ_VOLTAGE_SETTING", <<PyInt(0)>>)

get_current_limit == Request("get_current_limit", "READ_CURRENT_SETTING", <<PyInt(0)>>)

\* the device answers a request (or something else reaches the line)
DeviceSends ==
    /\ cpc = "read"
    /\ inbuf = <<>>
    /\ \E l \in DeviceLines, t \in Trailers : inbuf' = l \o t
    /\ UNCHANGED <<address_code, sent, cpc, call, cmd, nops, ret, line, outcome, drained, exc>>
    /\ UNCHANGED <<lvars, rvars, pvars>>

\* _read, lines 176-216: completes the call in progress.  With nothing on the
\* line read_until() times out and hands back the empty string.
ReadStep ==
    /\ cpc = "read"
    /\ LET r == ReadUntil(inbuf)
           d == ReadLine(cmd, r.line)
       IN /\ line' = r.line
          /\ ret' = d.val
          /\ outcome' = d.outcome
          /\ drained' = d.drain
          /\ inbuf' = IF d.drain THEN _clearInput(r.rest) ELSE r.rest
    /\ cpc' = "idle"
    /\ UNCHANGED <<address_code, sent, call, cmd, nops, exc>>

_read ==
    /\ ReadStep
    /\ UNCHANGED <<lvars, rvars, pvars>>

-----------------------------------------------------------------------------
(* Arithmetic of the main loop: exact fractions n/d with d > 0 *)

Abs(x) == IF x < 0 THEN -x ELSE x

RECURSIVE GCD(_, _)
GCD(x, y) == IF y = 0 THEN x ELSE GCD(y, x % y)

Norm(n, d) == LET g == GCD(Abs(n), d) IN PyFloat(n \div g, d \div g)

Add(x, y) == Norm(x.n * y.d + y.n * x.d, x.d * y.d)

Mul(x, y) == Norm(x.n * y.n, x.d * y.d)

\* x / y for y other than 0
Div(x, y) == IF y.n < 0 THEN Norm(-(x.n * y.d), x.d * (-y.n)) ELSE Norm(x.n * y.d, x.d * y.n)

Less(x, y) == x.n * y.d < y.n * x.d

-----------------------------------------------------------------------------
(* The main program, lines 287-430 *)

WATT_LOWER_LIMIT == 5

WATT_UPPER_LIMIT == 300

WATT_STEP == 5

TOLERANCE_WATT == 1

\* --max-watt and --delay (ms) the program may be started with
ConfiguredWatts == {0, 5, 50, 300, 303}

Delays == {1000}

\* time a pass may spend on its six exchanges and its output, ms
WorkTimes == {0, 150}

Keys == {"up", "down", "other"}

MaxCycles == 2

MaxKeys == 1

\* what a get_* call of the loop may return: nothing arrives within the timeout,
\* or the device answers the request with a frame carrying one of the values
ReadingsOf(c, values) ==
    {ReadLine(c, ln).val :
        ln \in {<<>>} \cup {DevFrame(1, READ, Value(c), <<x>>, <<".">>, END) : x \in values}}

VoltageReadings == ReadingsOf("READ_OUTPUT_VOLTAGE", {0, 1400})

CurrentReadings == ReadingsOf("READ_OUTPUT_CURRENT", {0, 4000})

StatusReadings == ReadingsOf("READ_OUTPUT_STATUS", {0, 1})

TypeReadings == ReadingsOf("READ_OUTPUT_TYPE", {0, 1})

VoltageLimitReadings == ReadingsOf("READ_VOLTAGE_SETTING", {1450})

CurrentLimitReadings == ReadingsOf("READ_CURRENT_SETTING", {3571})

\* lines 372-374: wh = w * timespan_s / 3600.0
IntervalEnergy(watt, timespan_ms) == Mul(watt, Norm(timespan_ms, 3600000))

\* lines 379-383 as they would be with the counter inside the test and the
\* estimate recomputed for every sample
GrossUpdatePositiveOnly(rv, ra, vs, as, cnt, gross, full_ms) ==
    LET pos == rv.n > 0 /\ ra.n > 0
        n == IF pos THEN cnt + 1 ELSE cnt
        vs2 == IF pos THEN Add(vs, rv) ELSE vs
        as2 == IF pos THEN Add(as, ra) ELSE as
    IN [ok |-> n # 0, stat_count |-> n, v_sum |-> vs2, a_sum |-> as2,
        wh_gross |-> IF n = 0 THEN gross
                     ELSE Mul(Mul(Div(vs2, PyInt(n)), Div(as2, PyInt(n))),
                              Norm(full_ms, 3600000))]

\* lines 379-383; ok is FALSE where a division by zero is raised
GrossUpdate(rv, ra, vs, as, cnt, gross, full_ms) ==
    LET n == cnt + 1 IN
    IF rv.n > 0 /\ ra.n > 0
    THEN LET vs2 == Add(vs, rv)
             as2 == Add(as, ra)
         IN [ok |-> n # 0, stat_count |-> n, v_sum |-> vs2, a_sum |-> as2,
             wh_gross |-> IF n = 0 THEN gross
                          ELSE Mul(Mul(Div(vs2, PyInt(n)), Div(as2, PyInt(n))),
                                   Norm(full_ms, 3600000))]
    ELSE [ok |-> TRUE, stat_count |-> n, v_sum |-> vs, a_sum |-> as, wh_gross |-> gross]

\* lines 265-273 as they would be without the test of line 269
WattAfterKeyNoUpperTest(watt, key) ==
    IF key = "up"
    THEN watt + WATT_STEP
    ELSE IF key = "down"
    THEN IF watt - WATT_STEP >= WATT_LOWER_LIMIT THEN watt - WATT_STEP ELSE watt
    ELSE watt

\* lines 265-273
WattAfterKey(watt, key) ==
    IF key = "up"
    THEN IF watt + WATT_STEP <= WATT_UPPER_LIMIT THEN watt + WATT_STEP ELSE watt
    ELSE IF key = "down"
    THEN IF watt - WATT_STEP >= WATT_LOWER_LIMIT THEN watt - WATT_STEP ELSE watt
    ELSE watt

ControlPcs == {"lower", "stage_lower", "raise", "stage_raise", "write", "sleep"}

\* key_press runs on the listener thread, between any two steps of the main thread
key_press(key) ==
    /\ pc \notin {"start", "crashed"}
    /\ keys < MaxKeys
    /\ max_watt' = WattAfterKey(max_watt, key)
    /\ keys' = keys + 1
    /\ stable' = IF pc \in ControlPcs THEN FALSE ELSE stable
    /\ UNCHANGED <<pc, clock, delay, start_time_monotonic, now_monotonic, last_time_monotonic,
                   v, a, state, typ, v_lim, a_lim, w, wh_sum, wh_gross, v_sum, a_sum,
                   stat_count, a_limit, crash, cfg_watt, wrote, rows, cycles, skips,
                   work, slept, a_seen, pos_count, ts_sum>>
    /\ UNCHANGED <<cvars, rvars, pvars>>

\* lines 331-336: the voltage limit is written (its result is discarded) and the
\* key listener starts
SetVoltageLimit ==
    /\ pc = "start"
    /\ pc' = "session"
    /\ UNCHANGED <<clock, delay, start_time_monotonic, now_monotonic, last_time_monotonic,
                   max_watt, v, a, state, typ, v_lim, a_lim, w, wh_sum, wh_gross, v_sum, a_sum,
                   stat_count, a_limit, crash, cfg_watt, wrote, rows, cycles, skips, keys,
                   stable, work, slept, a_seen, pos_count, ts_sum>>
    /\ UNCHANGED <<cvars, rvars, pvars>>

\* lines 346-350
StartSession ==
    /\ pc = "session"
    /\ start_time_monotonic' = clock
    /\ now_monotonic' = clock
    /\ clock' = clock + delay
    /\ pc' = "poll"
    /\ UNCHANGED <<delay, last_time_monotonic,
                   max_watt, v, a, state, typ, v_lim, a_lim, w, wh_sum, wh_gross, v_sum, a_sum,
                   stat_count, a_limit, crash, cfg_watt, wrote, rows, cycles, skips, keys,
                   stable, work, slept, a_seen, pos_count, ts_sum>>
    /\ UNCHANGED <<cvars, rvars, pvars>>

\* line 367 as it would be if only the voltage were tested
SkipsCycleVoltageOnly(rv, ra) == rv = None

\* line 367: if v is None or a is None
SkipsCycle(rv, ra) == rv = None \/ ra = None

\* lines 353-383: the loop top, the six readings, the skip and the accounting.
\* A pass that skips has spent its work time when it is back at the loop top; a
\* pass that goes on spends it before its sleep (the clock is not read in between).
Poll ==
    /\ pc = "poll"
    /\ cycles < MaxCycles
    /\ cycles' = cycles + 1
    /\ last_time_monotonic' = now_monotonic
    /\ now_monotonic' = clock
    /\ \E rv \in VoltageReadings, ra \in CurrentReadings, rs \in StatusReadings,
          rt \in TypeReadings, rvl \in VoltageLimitReadings, ral \in CurrentLimitReadings :
          IF SkipsCycle(rv, ra)
          THEN /\ \E wk \in WorkTimes : clock' = clock + wk /\ work' = wk
               /\ skips' = skips + 1
               /\ pc' = "poll"
               /\ v' = None /\ a' = None /\ state' = None
               /\ typ' = None /\ v_lim' = None /\ a_lim' = None
               /\ UNCHANGED <<w, wh_sum, wh_gross, v_sum, a_sum, stat_count, crash, a_seen,
                              pos_count, ts_sum>>
          ELSE LET g == GrossUpdate(rv, ra, v_sum, a_sum, stat_count, wh_gross,
                                    clock - start_time_monotonic)
               IN /\ v' = rv /\ a' = ra /\ state' = rs
                  /\ typ' = rt /\ v_lim' = rvl /\ a_lim' = ral
                  /\ w' = Mul(rv, ra)
                  /\ wh_sum' = Add(wh_sum, IntervalEnergy(Mul(rv, ra), clock - now_monotonic))
                  /\ a_seen' = (a_seen \/ ra.n # 0)
                  /\ pos_count' = IF rv.n > 0 /\ ra.n > 0 THEN pos_count + 1 ELSE pos_count
                  /\ ts_sum' = ts_sum + (clock - now_monotonic)
                  /\ IF g.ok
                     THEN /\ stat_count' = g.stat_count
                          /\ v_sum' = g.v_sum
                          /\ a_sum' = g.a_sum
                          /\ wh_gross' = g.wh_gross
                          /\ pc' = "emit"
                          /\ crash' = crash
                     ELSE /\ pc' = "crashed"
                          /\ crash' = "ZeroDivisionError at 383"
                          /\ UNCHANGED <<stat_count, v_sum, a_sum, wh_gross>>
                  /\ UNCHANGED <<clock, work, skips>>
    /\ UNCHANGED <<delay, start_time_monotonic, max_watt, a_limit, cfg_watt, wrote, rows,
                   keys, stable, slept>>
    /\ UNCHANGED <<cvars, rvars, pvars>>

\* lines 385-410: the console line and the record.  Formatting None with .2f or
\* .3f raises TypeError; v, a and w are numbers here, typ is printed as it is.
Emit ==
    /\ pc = "emit"
    /\ IF v_lim = None \/ a_lim = None
       THEN /\ pc' = "crashed"
            /\ crash' = "TypeError at 385"
            /\ UNCHANGED <<rows, wrote, stable>>
       ELSE /\ pc' = "lower"
            /\ rows' = rows + 1
            /\ wrote' = None
            /\ stable' = TRUE
            /\ crash' = crash
    /\ UNCHANGED <<clock, delay, start_time_monotonic, now_monotonic, last_time_monotonic,
                   max_watt, v, a, state, typ, v_lim, a_lim, w, wh_sum, wh_gross, v_sum, a_sum,
                   stat_count, a_limit, cfg_watt, cycles, skips, keys, work, slept, a_seen, pos_count, ts_sum>>
    /\ UNCHANGED <<cvars, rvars, pvars>>

\* the frame of a step of the control part: everything but pc, a_limit, crash, wrote
ControlFrame ==
    /\ UNCHANGED <<clock, delay, start_time_monotonic, now_monotonic, last_time_monotonic,
                   max_watt, v, a, state, typ, v_lim, a_lim, w, wh_sum, wh_gross, v_sum,
                   a_sum, stat_count, cfg_watt, rows, cycles, skips, keys, stable, work,
                   slept, a_seen, pos_count, ts_sum>>
    /\ UNCHANGED <<cvars, rvars, pvars>>

\* line 413
CheckLower ==
    /\ pc = "lower"
    /\ pc' = IF Less(PyInt(max_watt + TOLERANCE_WATT), w) /\ Truthy(state)
             THEN "stage_lower" ELSE "raise"
    /\ UNCHANGED <<a_limit, crash, wrote>>
    /\ ControlFrame

\* a_limit = max_watt / v, lines 414 and 418
Stage(next) ==
    /\ IF v.n = 0
       THEN pc' = "crashed" /\ crash' = "ZeroDivisionError at a_limit" /\ a_limit' = a_limit
       ELSE pc' = next /\ crash' = crash /\ a_limit' = Div(PyInt(max_watt), v)
    /\ UNCHANGED wrote
    /\ ControlFrame

\* lines 414-415
StageLower == pc = "stage_lower" /\ Stage("raise")

\* line 417
CheckRaise ==
    /\ pc = "raise"
    /\ pc' = IF /\ Less(w, PyInt(max_watt - TOLERANCE_WATT))
                /\ typ = PyStr(<<"C", "C">>)
                /\ Truthy(state)
             THEN "stage_raise" ELSE "write"
    /\ UNCHANGED <<a_limit, crash, wrote>>
    /\ ControlFrame

\* lines 418-419
StageRaise == pc = "stage_raise" /\ Stage("write")

\* lines 421-423: the result of set_current_limit is discarded
WriteLimit ==
    /\ pc = "write"
    /\ IF Truthy(a_limit)
       THEN wrote' = a_limit /\ a_limit' = None
       ELSE UNCHANGED <<wrote, a_limit>>
    /\ pc' = "sleep"
    /\ UNCHANGED crash
    /\ ControlFrame

\* lines 425-430.  The readings and w are not read again before lines 359-370
\* reassign them.
Sleep ==
    /\ pc = "sleep"
    /\ \E wk \in WorkTimes :
          LET offset == (now_monotonic - start_time_monotonic) % delay
          IN /\ work' = wk
             /\ slept' = delay - offset
             /\ clock' = now_monotonic + wk + (delay - offset)
    /\ pc' = "poll"
    /\ v' = None /\ a' = None /\ state' = None
    /\ typ' = None /\ v_lim' = None /\ a_lim' = None
    /\ w' = None
    /\ wrote' = None
    /\ stable' = TRUE
    /\ UNCHANGED <<delay, start_time_monotonic, now_monotonic, last_time_monotonic,
                   max_watt, wh_sum, wh_gross, v_sum, a_sum,
                   stat_count, a_limit, crash, cfg_watt, rows, cycles, skips, keys, a_seen, pos_count, ts_sum>>
    /\ UNCHANGED <<cvars, rvars, pvars>>

\* the client while the main program is observed: constructed, idle
ClientIdle ==
    /\ address_code = 1
    /\ inbuf = <<>>
    /\ sent = <<>>
    /\ cpc = "idle"
    /\ call = "none"
    /\ cmd = "none"
    /\ nops = 0
    /\ ret = None
    /\ line = <<>>
    /\ outcome = "none"
    /\ drained = FALSE
    /\ exc = "none"

\* the main program while the client or the conversions are observed: not started
LoopIdle ==
    /\ pc = "off"
    /\ clock = 0 /\ delay = 1000
    /\ start_time_monotonic = 0 /\ now_monotonic = 0 /\ last_time_monotonic = 0
    /\ max_watt = 50 /\ cfg_watt = 50
    /\ v = None /\ a = None /\ state = None /\ typ = None /\ v_lim = None /\ a_lim = None
    /\ w = None
    /\ wh_sum = PyFloat(0, 1) /\ wh_gross = PyFloat(0, 1)
    /\ v_sum = PyFloat(0, 1) /\ a_sum = PyFloat(0, 1)
    /\ stat_count = 0
    /\ a_limit = None
    /\ crash = "none"
    /\ wrote = None
    /\ rows = 0 /\ cycles = 0 /\ skips = 0 /\ keys = 0
    /\ stable = TRUE
    /\ work = 0 /\ slept = 0
    /\ a_seen = FALSE
    /\ pos_count = 0 /\ ts_sum = 0

RoundTripIdle ==
    /\ rt_pc = "off"
    /\ rt_scale = 100
    /\ rt_in = PyFloat(0, 1)
    /\ rt_wire = 0
    /\ rt_out = None

\* no session is observed
SessionIdle ==
    /\ step = 0
    /\ reqno = 0
    /\ owed = <<>>
    /\ tags = <<>>
    /\ got = 0

\* lines 319-329
LoopInit ==
    /\ pc = "start"
    /\ clock = 0
    /\ delay \in Delays
    /\ start_time_monotonic = 0 /\ now_monotonic = 0 /\ last_time_monotonic = 0
    /\ max_watt \in ConfiguredWatts
    /\ cfg_watt = max_watt
    /\ v = None /\ a = None /\ state = None /\ typ = None /\ v_lim = None /\ a_lim = None
    /\ w = None
    /\ wh_sum = PyFloat(0, 1) /\ wh_gross = PyFloat(0, 1)
    /\ v_sum = PyFloat(0, 1) /\ a_sum = PyFloat(0, 1)
    /\ stat_count = 0
    /\ a_limit = None
    /\ crash = "none"
    /\ wrote = None
    /\ rows = 0 /\ cycles = 0 /\ skips = 0 /\ keys = 0
    /\ stable = TRUE
    /\ work = 0 /\ slept = 0
    /\ a_seen = FALSE
    /\ pos_count = 0 /\ ts_sum = 0
    /\ ClientIdle
    /\ RoundTripIdle
    /\ SessionIdle

LoopNext ==
    \/ SetVoltageLimit
    \/ StartSession
    \/ Poll
    \/ Emit
    \/ CheckLower
    \/ StageLower
    \/ CheckRaise
    \/ StageRaise
    \/ WriteLimit
    \/ Sleep
    \/ \E key \in Keys : key_press(key)

SpecLoop == LoopInit /\ [][LoopNext]_vars

InRange(watt) == WATT_LOWER_LIMIT <= watt /\ watt <= WATT_UPPER_LIMIT

\* the readings of the pass in progress
Readings == {v, a, state, typ, v_lim, a_lim}

\* C5: a reading that comes back as None never ends the main loop: where the
\* main thread has died of an exception, none of the six readings of its last
\* pass was None.
C5_FaultNeverEndsLoop == pc = "crashed" => None \notin Readings

\* the test the control part is to apply to the sample of this pass
ShouldWrite ==
    /\ Truthy(state)
    /\ \/ Less(PyInt(max_watt + TOLERANCE_WATT), w)
       \/ Less(w, PyInt(max_watt - TOLERANCE_WATT)) /\ typ = PyStr(<<"C", "C">>)

\* C6: with the target unchanged during the control part, the pass issues
\* set_current_limit exactly if the output is on and the power is above the
\* tolerance band, or below it in CC mode, and the value it supplies is
\* target / voltage.
C6_ControlStep ==
    (pc = "sleep" /\ stable) =>
        /\ (wrote # None) <=> ShouldWrite
        /\ wrote # None => wrote = Div(PyInt(max_watt), v)

\* C7: with no pass skipped and every pass working for less than the delay,
\* each pass sleeps for the delay minus the work it spent, and the next pass
\* starts a whole number of delays after the session start.
C7_DriftCorrectedSleep ==
    (pc = "poll" /\ cycles >= 1 /\ skips = 0 /\ work < delay) =>
        /\ slept = delay - work
        /\ (clock - start_time_monotonic) % delay = 0

C10_GrossZeroWithoutCurrent ==
    ~a_seen => wh_gross = PyFloat(0, 1) /\ crash # "ZeroDivisionError at 383"

\* two samples with a voltage and no current have been accounted
C10_Witness ==
    ~a_seen /\ stat_count = 2 /\ pc = "sleep" /\ v = PyFloat(1400, 100) /\ a = PyFloat(0, 1000)

\* C12: a pass whose voltage or current reading is None leaves the interval
\* energy sum, the gross energy, the voltage and current sums and the sample
\* counter unchanged, emits no record, issues no set_current_limit, and is
\* followed by the next loop top with no sleep in between (only the time the
\* pass worked has gone by).
C12_SkippedCycleFrame ==
    [][(pc = "poll" /\ cycles' = cycles + 1 /\ (v' = None \/ a' = None)) =>
          /\ UNCHANGED <<wh_sum, wh_gross, v_sum, a_sum, stat_count, rows, wrote, a_limit, slept>>
          /\ wrote = None
          /\ pc' = "poll"
          /\ clock' = clock + work']_vars

\* a pass with a sample of 56 W was followed by a skipped pass
C12_Witness ==
    /\ pc = "poll" /\ cycles = 2 /\ skips = 1 /\ rows = 1 /\ stat_count = 1
    /\ wh_sum # PyFloat(0, 1)

-----------------------------------------------------------------------------
\* C13: the sample counter that divides the sums of the gross estimate equals
\* the number of completed samples whose voltage and current were both above 0.
C13_CounterCountsPositiveSamples == stat_count = pos_count

\* C15: at every loop top no current limit is staged.
C15_NothingStagedAtLoopTop == pc = "poll" => a_limit = None

\* C16: once the first sample of the session has been accounted, the interval
\* energy sum is 0.
C16_FirstSampleAddsNothing == (stat_count = 1 /\ pc = "emit") => wh_sum = PyFloat(0, 1)

\* the threshold test of lines 413 and 417 for a target t and this pass's sample
TestHolds(t) ==
    /\ Truthy(state)
    /\ \/ Less(PyInt(t + TOLERANCE_WATT), w)
       \/ Less(w, PyInt(t - TOLERANCE_WATT)) /\ typ = PyStr(<<"C", "C">>)

\* C17: the limit written in a pass is t / v for a target t for which the
\* threshold test holds on the sample of that pass, whenever keys are pressed.
C17_WrittenLimitMatchesTestedTarget ==
    (pc = "sleep" /\ wrote # None) =>
        LET t == Mul(wrote, v) IN t.d = 1 /\ TestHolds(t.n)

\* C18: when a sample has been accounted, the intervals over which interval
\* energy has been accumulated add up to the session time elapsed at that sample.
C18_IntervalsCoverSession ==
    pc = "emit" => ts_sum = now_monotonic - start_time_monotonic

\* C19: the control part never ends in a division by zero: no pass whose record
\* was emitted dies between the record and the sleep.
C19_ControlStepNeverDividesByZero ==
    ~(pc = "crashed" /\ crash = "ZeroDivisionError at a_limit")

\* DPM8600.__init__, lines 122-142: the input buffer is cleared
ClientInit ==
    /\ address_code \in AddressCodes
    /\ inbuf = <<>>
    /\ sent = <<>>
    /\ cpc = "idle"
    /\ call = "none"
    /\ cmd = "none"
    /\ nops = 0
    /\ ret = None
    /\ line = <<>>
    /\ outcome = "none"
    /\ drained = FALSE
    /\ exc = "none"
    /\ LoopIdle
    /\ RoundTripIdle
    /\ SessionIdle

ClientNext ==
    \/ set_voltage_limit
    \/ set_current_limit
    \/ set_output
    \/ set_max_voltage_and_current
    \/ get_voltage
    \/ get_current
    \/ get_output_status
    \/ get_output_type
    \/ get_temperature
    \/ get_voltage_limit
    \/ get_current_limit
    \/ DeviceSends
    \/ _read

SpecClient == ClientInit /\ [][ClientNext]_vars

\* a _read has completed the last call
Completed == cpc = "idle" /\ outcome # "none"

\* C1: a line that ends with CR LF and matches the frame pattern, but carries a
\* function number other than the request's, makes the call return None and
\* leaves nothing in the input buffer.
C1_MismatchIsFault ==
    (/\ Completed
     /\ EndsWith(line, END)
     /\ Match(line).ok
     /\ StrToInt(Match(line).func_num) # Value(cmd))
    => (ret = None /\ drained /\ inbuf = <<>>)

\* get_voltage was answered with the frame of the output current
C1_Witness ==
    /\ Completed
    /\ call = "get_voltage"
    /\ line = DevFrame(1, READ, 31, <<1400>>, <<".">>, END)
    /\ ret = None
    /\ drained

C3_AckIsSuccess ==
    (/\ Completed
     /\ call \in {"set_voltage_limit", "set_current_limit", "set_output"}
     /\ line = Ack)
    => ret = True

\* set_current_limit was acknowledged
C3_Witness ==
    /\ Completed
    /\ call = "set_current_limit"
    /\ line = Ack
    /\ ret = True

CommaCount(s) == Cardinality({i \in 1..Len(s) : s[i] = ","})

\* C4: every call of the client, set_max_voltage_and_current included, has
\* transmitted a frame that starts with ":" and the two-digit address, carries
\* as many operands as it was given, each followed by a comma, and ends with CR LF.
C4_EveryCallIsFramed ==
    call # "none" =>
        /\ exc = "none"
        /\ StartsAt(sent, 1, <<START>> \o Fmt02(address_code))
        /\ EndsWith(sent, <<",">> \o END)
        /\ CommaCount(sent) = nops

GetCalls ==
    {"get_voltage", "get_current", "get_output_status", "get_output_type",
     "get_temperature", "get_voltage_limit", "get_current_limit"}

\* C11: a get_* call returns either None or the value converted from a frame
\* that carries the function number of its read command; it never returns the
\* True of the write acknowledgement.
C11_GetNeverReturnsAck ==
    (Completed /\ call \in GetCalls) =>
        \/ ret = None
        \/ /\ Match(line).ok
           /\ StrToInt(Match(line).func_num) = Value(cmd)
           /\ ret = ReadConvert(cmd, StrToInt(Match(line).operand))

\* C20: a call returns a value converted from a frame only if the address
\* field of that frame is the address code of the client.
C20_OnlyOwnAddressAccepted ==
    (Completed /\ outcome = "Value") =>
        (Match(line).ok /\ StrToInt(Match(line).addr) = address_code)

-----------------------------------------------------------------------------
(* A session on the line: the calls of the main program in the order it makes *)
(* them, and a device that answers every request once, in time or late        *)

MaxRequests == 8

\* line 331, lines 359-365, line 422
ProgramCalls ==
    << [method |-> "set_voltage_limit", c |-> "WRITE_VOLTAGE_LIMIT",
        operands |-> <<PyFloat(1450, 100)>>],
       [method |-> "get_voltage", c |-> "READ_OUTPUT_VOLTAGE", operands |-> <<PyInt(0)>>],
       [method |-> "get_current", c |-> "READ_OUTPUT_CURRENT", operands |-> <<PyInt(0)>>],
       [method |-> "get_output_status", c |-> "READ_OUTPUT_STATUS", operands |-> <<PyInt(0)>>],
       [method |-> "get_output_type", c |-> "READ_OUTPUT_TYPE", operands |-> <<PyInt(0)>>],
       [method |-> "get_voltage_limit", c |-> "READ_VOLTAGE_SETTING", operands |-> <<PyInt(0)>>],
       [method |-> "get_current_limit", c |-> "READ_CURRENT_SETTING", operands |-> <<PyInt(0)>>],
       [method |-> "set_current_limit", c |-> "WRITE_CURRENT_LIMIT",
        operands |-> <<PyFloat(3571, 1000)>>] >>

\* the call that may follow call i: after the six readings the pass writes a
\* current limit (line 422) or goes back to the loop top
NextSteps(i) == IF i = 7 THEN {8, 2} ELSE IF i = 8 THEN {2} ELSE {i + 1}

\* the device's answer to command c: the acknowledgement of a write, the data
\* frame of a read
Answer(c) ==
    IF c \in WriteFunction THEN Ack ELSE DevFrame(1, READ, Value(c), <<1>>, <<".">>, END)

\* the next call of the program transmits its request (_send)
Transmit ==
    /\ step \in 1..Len(ProgramCalls)
    /\ reqno < MaxRequests
    /\ CallStep(ProgramCalls[step].method, ProgramCalls[step].c, ProgramCalls[step].operands)
    /\ reqno' = reqno + 1
    /\ owed' = Append(owed, [req |-> reqno + 1, c |-> ProgramCalls[step].c])
    /\ \E n \in NextSteps(step) : step' = n
    /\ UNCHANGED <<tags, got>>
    /\ UNCHANGED <<lvars, rvars>>

\* the device answers the oldest request it has not answered: before the read
\* of that request has timed out, or after
DeviceAnswers ==
    /\ owed # <<>>
    /\ inbuf' = inbuf \o Answer(Head(owed).c)
    /\ tags' = Append(tags, Head(owed).req)
    /\ owed' = Tail(owed)
    /\ UNCHANGED <<address_code, sent, cpc, call, cmd, nops, ret, line, outcome, drained, exc>>
    /\ UNCHANGED <<step, reqno, got>>
    /\ UNCHANGED <<lvars, rvars>>

\* the call in progress reads (_read): one line off the buffer, or nothing
Receive ==
    /\ ReadStep
    /\ got' = IF tags = <<>> THEN 0 ELSE Head(tags)
    /\ tags' = IF tags = <<>> \/ drained' THEN <<>> ELSE Tail(tags)
    /\ UNCHANGED <<step, reqno, owed>>
    /\ UNCHANGED <<lvars, rvars>>

SessionInit ==
    /\ ClientIdle
    /\ LoopIdle
    /\ RoundTripIdle
    /\ step = 1
    /\ reqno = 0
    /\ owed = <<>>
    /\ tags = <<>>
    /\ got = 0

SessionNext ==
    \/ Transmit
    \/ DeviceAnswers
    \/ Receive

SpecSession == SessionInit /\ [][SessionNext]_vars

\* C14: while a request is outstanding, no answer to an earlier request is on
\* the line, and the line a read consumes is never the answer to an earlier
\* request than the one the read belongs to.
C14_RequestsAndAnswersPaired ==
    /\ cpc = "read" => \A i \in 1..Len(tags) : tags[i] = reqno
    /\ (Completed /\ got # 0) => got = reqno

-----------------------------------------------------------------------------
(* The conversions back to back: a limit is written and read back *)

MaxCentivolts == 60

MaxMilliamps == 20

\* the values handed to set_voltage_limit (scale 100) or set_current_limit
\* (scale 1000): multiples of the step, and for the voltage values half way
\* between two multiples
RoundTripInputs(scale) ==
    IF scale = 100
    THEN {PyFloat(n, 100) : n \in 0..MaxCentivolts}
            \cup {PyFloat(10 * n + 5, 1000) : n \in 0..MaxCentivolts}
    ELSE {PyFloat(1000 + n, 1000) : n \in 0..MaxMilliamps}

\* WriteFunction.convert, lines 85-90, on the value handed to set_*_limit
WriteFunction_convert ==
    /\ rt_pc = "in"
    /\ rt_wire' = WriteConvert(IF rt_scale = 100 THEN "WRITE_VOLTAGE_LIMIT"
                                                 ELSE "WRITE_CURRENT_LIMIT", rt_in).val.n
    /\ rt_pc' = "wire"
    /\ UNCHANGED <<rt_scale, rt_in, rt_out>>
    /\ UNCHANGED <<cvars, lvars, pvars>>

\* ReadFunction.convert, lines 109-115, on the integer the device stored
ReadFunction_convert ==
    /\ rt_pc = "wire"
    /\ rt_out' = ReadConvert(IF rt_scale = 100 THEN "READ_VOLTAGE_SETTING"
                                                ELSE "READ_CURRENT_SETTING", rt_wire)
    /\ rt_pc' = "out"
    /\ UNCHANGED <<rt_scale, rt_in, rt_wire>>
    /\ UNCHANGED <<cvars, lvars, pvars>>

RoundTripInit ==
    /\ rt_pc = "in"
    /\ rt_scale \in {100, 1000}
    /\ rt_in \in RoundTripInputs(rt_scale)
    /\ rt_wire = 0
    /\ rt_out = None
    /\ ClientIdle
    /\ LoopIdle
    /\ SessionIdle

RoundTripNext ==
    \/ WriteFunction_convert
    \/ ReadFunction_convert

SpecRoundTrip == RoundTripInit /\ [][RoundTripNext]_vars

\* C9: a value v >= 0 written with scale s and read back as r satisfies
\* 0 <= v - r < 1/s (so a multiple of 1/s is read back as itself).
C9_RoundTripBound ==
    rt_pc = "out" =>
        LET diff == rt_in.n * rt_out.d - rt_out.n * rt_in.d
        IN 0 <= diff /\ diff * rt_scale < rt_in.d * rt_out.d

====
